---- MODULE Spec2Model ----
(***************************************************************************)
(* NCO data-entry tool: the two-step wizard (NcoAdminApp, NcoFormDetails,  *)
(* NcoFormReview), the single-page form (NcoSingleForm) and the page       *)
(* switch of App, as a state machine over React state.                     *)
(*                                                                         *)
(* A handler is one action: it applies its setState calls and leaves a     *)
(* render pending (phase = "render").  RenderCommit is one React render    *)
(* pass of the mounted page followed by its commit and the flush of the    *)
(* passive effects whose dependencies changed; the updaters the effects    *)
(* queue are applied in order and leave another render pending.  A render  *)
(* started by a discrete event, the effects it triggers and the renders    *)
(* those trigger run inside one browser task, so handlers and the          *)
(* completion of a suggestion request are enabled only when no render is   *)
(* pending (phase = "idle").  An error thrown while rendering is caught    *)
(* by no error boundary: React unmounts the root (phase = "crashed").      *)
(***************************************************************************)
EXTENDS Integers, Sequences, FiniteSets, TLC

VARIABLES
    currentPage,     \* App: 'admin' | 'output'
    phase,           \* "render" (a render is pending), "idle", "crashed"
    mounted,         \* the form component of the last commit
    currentStep,     \* NcoAdminApp: 1 details, 2 review
    formData,        \* NcoAdminApp: the wizard's record
    errors,          \* NcoFormDetails: displayed error map
    reviewErrors,    \* NcoFormReview: displayed error map
    isPending,       \* NcoFormReview: useTransition's pending flag
    inflight,        \* suggestion requests not yet completed, oldest first
    lastDeps,        \* dependency values of the reset effects at the last commit
    singleFormData,  \* NcoSingleForm: the record
    singleErrors,    \* NcoSingleForm: displayed error map
    lastEvent,       \* the handler that ran last, with its argument
    probe,           \* a validation call: its profile, its argument, its result
    passes           \* render passes of the current chain of effects so far

vars == <<currentPage, phase, mounted, currentStep, formData, errors,
          reviewErrors, isPending, inflight, lastDeps, singleFormData,
          singleErrors, lastEvent, probe, passes>>

adminVars == <<currentStep, formData, errors, reviewErrors, isPending>>
singleVars == <<singleFormData, singleErrors>>

-----------------------------------------------------------------------------
(* Bounds *)

\* Requests that may be in flight at once before the model stops issuing more.
MaxInFlight == 2
\* Longest description handed to the validation profiles.
MaxDescLen == 11
\* Render passes one chain of effects may take before the model stops it.
MaxPasses == 5

-----------------------------------------------------------------------------
(* JavaScript values: objects keep their keys in insertion order *)

Undefined == [kind |-> "undefined"]
TypeError == [kind |-> "TypeError"]
Obj(entries) == [kind |-> "object", entries |-> entries]
Arr(items) == [kind |-> "array", items |-> items]

\* o[k]: reading a property of undefined throws; a missing key is undefined.
Get(o, k) ==
    IF o.kind \in {"undefined", "TypeError"} THEN TypeError
    ELSE IF o.kind = "object" /\ \E i \in 1..Len(o.entries) : o.entries[i][1] = k
         THEN o.entries[CHOOSE i \in 1..Len(o.entries) : o.entries[i][1] = k][2]
         ELSE Undefined

\* v || d, with an exception in v propagating.
OrElse(v, d) ==
    IF v.kind = "TypeError" THEN TypeError
    ELSE IF v.kind = "undefined" THEN d ELSE v

\* Object.keys(o).
ObjectKeys(o) ==
    IF o.kind = "TypeError" THEN TypeError
    ELSE Arr([i \in 1..Len(o.entries) |-> o.entries[i][1]])

ncoData ==
    Obj(<< <<"Division A", Obj(<<
               <<"Sub-Division A1", Obj(<<
                   <<"Group A1-1", Arr(<<"Family A1-1-1", "Family A1-1-2">>)>>,
                   <<"Group A1-2", Arr(<<"Family A1-2-1", "Family A1-2-2">>)>> >>)>>,
               <<"Sub-Division A2", Obj(<<
                   <<"Group A2-1", Arr(<<"Family A2-1-1">>)>>,
                   <<"Group A2-2", Arr(<<"Family A2-2-1", "Family A2-2-2">>)>> >>)>> >>)>>,
           <<"Division B", Obj(<<
               <<"Sub-Division B1", Obj(<<
                   <<"Group B1-1", Arr(<<"Family B1-1-1", "Family B1-1-2">>)>>,
                   <<"Group B1-2", Arr(<<"Family B1-2-1">>)>> >>)>> >>)>> >>)

divisions == ObjectKeys(ncoData)

Range(s) == {s[i] : i \in 1..Len(s)}

-----------------------------------------------------------------------------
(* Option lists (the useMemo bodies, the same in both forms) *)

subDivisions(data) ==
    IF data.division = "" THEN Arr(<<>>)
    ELSE ObjectKeys(OrElse(Get(ncoData, data.division), Obj(<<>>)))

groups(data) ==
    IF data.division = "" \/ data.subDivision = "" THEN Arr(<<>>)
    ELSE LET divisionData == Get(ncoData, data.division)
         IN  ObjectKeys(OrElse(Get(divisionData, data.subDivision), Obj(<<>>)))

families(data) ==
    IF data.division = "" \/ data.subDivision = "" \/ data.group = "" THEN Arr(<<>>)
    ELSE LET divisionData == Get(ncoData, data.division)
             subDivisionData == Get(divisionData, data.subDivision)
         IN  OrElse(Get(subDivisionData, data.group), Arr(<<>>))

\* A render of either form evaluates the three memos; one that throws ends it.
RenderThrows(data) ==
    \/ subDivisions(data).kind = "TypeError"
    \/ groups(data).kind = "TypeError"
    \/ families(data).kind = "TypeError"

\* The <option> values a select renders from a memo's result.
Options(list) == IF list.kind = "array" THEN Range(list.items) ELSE {}

-----------------------------------------------------------------------------
(* Validation *)

EmptyMap == [k \in {} |-> ""]
Put(m, k, v) == [x \in DOMAIN m \cup {k} |-> IF x = k THEN v ELSE m[x]]
Delete(m, k) == [x \in DOMAIN m \ {k} |-> m[x]]

MinDescriptionLength == 10

\* Faulty variant: the family rule is missing.
\* Faulty variant: the NCO code is not required.
validateNcoDetailsNoCode(data) ==
    LET e2 == IF data.division = "" THEN Put(EmptyMap, "division", "Division is required") ELSE EmptyMap
        e3 == IF data.subDivision = "" THEN Put(e2, "subDivision", "Sub-Division is required") ELSE e2
        e4 == IF data.group = "" THEN Put(e3, "group", "Group is required") ELSE e3
        e5 == IF data.family = "" THEN Put(e4, "family", "Family is required") ELSE e4
    IN  [isValid |-> Cardinality(DOMAIN e5) = 0, errors |-> e5]

validateNcoDetailsNoFamily(data) ==
    LET e1 == IF data.ncoCode = "" THEN Put(EmptyMap, "ncoCode", "NCO Code is required") ELSE EmptyMap
        e2 == IF data.division = "" THEN Put(e1, "division", "Division is required") ELSE e1
        e3 == IF data.subDivision = "" THEN Put(e2, "subDivision", "Sub-Division is required") ELSE e2
        e4 == IF data.group = "" THEN Put(e3, "group", "Group is required") ELSE e3
    IN  [isValid |-> Cardinality(DOMAIN e4) = 0, errors |-> e4]

validateNcoDetails(data) ==
    LET e1 == IF data.ncoCode = "" THEN Put(EmptyMap, "ncoCode", "NCO Code is required") ELSE EmptyMap
        e2 == IF data.division = "" THEN Put(e1, "division", "Division is required") ELSE e1
        e3 == IF data.subDivision = "" THEN Put(e2, "subDivision", "Sub-Division is required") ELSE e2
        e4 == IF data.group = "" THEN Put(e3, "group", "Group is required") ELSE e3
        e5 == IF data.family = "" THEN Put(e4, "family", "Family is required") ELSE e4
    IN  [isValid |-> Cardinality(DOMAIN e5) = 0, errors |-> e5]

\* Faulty variant: a description of exactly 10 characters is rejected.
validateNcoReviewOffByOne(data) ==
    LET e1 == IF data.description = "" \/ Len(data.description) <= MinDescriptionLength
              THEN Put(EmptyMap, "description", "Description must be at least 10 characters")
              ELSE EmptyMap
    IN  [isValid |-> Cardinality(DOMAIN e1) = 0, errors |-> e1]

validateNcoReview(data) ==
    LET e1 == IF data.description = "" \/ Len(data.description) < MinDescriptionLength
              THEN Put(EmptyMap, "description", "Description must be at least 10 characters")
              ELSE EmptyMap
    IN  [isValid |-> Cardinality(DOMAIN e1) = 0, errors |-> e1]

\* Faulty variant: the title rule is missing.
validateFormNoTitle(data) ==
    LET e1 == IF data.ncoCode = "" THEN Put(EmptyMap, "ncoCode", "NCO Code is required") ELSE EmptyMap
        e3 == IF data.description = "" \/ Len(data.description) < MinDescriptionLength
              THEN Put(e1, "description", "Description must be at least 10 characters")
              ELSE e1
        e4 == IF data.division = "" THEN Put(e3, "division", "Division is required") ELSE e3
        e5 == IF data.subDivision = "" THEN Put(e4, "subDivision", "Sub-Division is required") ELSE e4
        e6 == IF data.group = "" THEN Put(e5, "group", "Group is required") ELSE e5
        e7 == IF data.family = "" THEN Put(e6, "family", "Family is required") ELSE e6
    IN  [isValid |-> Cardinality(DOMAIN e7) = 0, errors |-> e7]

validateForm(data) ==
    LET e1 == IF data.ncoCode = "" THEN Put(EmptyMap, "ncoCode", "NCO Code is required") ELSE EmptyMap
        e2 == IF data.title = "" THEN Put(e1, "title", "Title is required") ELSE e1
        e3 == IF data.description = "" \/ Len(data.description) < MinDescriptionLength
              THEN Put(e2, "description", "Description must be at least 10 characters")
              ELSE e2
        e4 == IF data.division = "" THEN Put(e3, "division", "Division is required") ELSE e3
        e5 == IF data.subDivision = "" THEN Put(e4, "subDivision", "Sub-Division is required") ELSE e4
        e6 == IF data.group = "" THEN Put(e5, "group", "Group is required") ELSE e5
        e7 == IF data.family = "" THEN Put(e6, "family", "Family is required") ELSE e6
    IN  [isValid |-> Cardinality(DOMAIN e7) = 0, errors |-> e7]

-----------------------------------------------------------------------------
(* Records, defaults and the values a user types or picks *)

AdminDefaults ==
    [ncoCode |-> "", division |-> "", subDivision |-> "", group |-> "",
     family |-> "", description |-> "", confidence |-> <<75>>]

SingleDefaults ==
    [ncoCode |-> "", title |-> "", description |-> "", division |-> "",
     subDivision |-> "", group |-> "", family |-> "", confidenceScore |-> <<50>>]

CodeInputs == {"", "1111"}
TitleInputs == {"", "Clerk"}
DescriptionInputs == {"", "short", "exactly 10"}
ConfidenceInputs == {<<50>>, <<75>>}

\* The options the modelled user picks among, besides the placeholder: both
\* divisions, two sub-divisions of one division, two groups of one
\* sub-division, and a complete path under each division.
Picks ==
    {"Division A", "Division B",
     "Sub-Division A1", "Sub-Division A2", "Sub-Division B1",
     "Group A1-1", "Group A1-2", "Group A2-1", "Group B1-1",
     "Family A1-1-1", "Family B1-1-1"}

Picked(offered) == offered \cap ({""} \cup Picks)

Deps(data) ==
    [division |-> data.division, subDivision |-> data.subDivision, group |-> data.group]

NoDeps == [division |-> "", subDivision |-> "", group |-> ""]

\* lastEvent names the last change of a taxonomy select with the value picked,
\* or the last settled suggestion request with the description it found;
\* a submit of the single-page form or a Back of the wizard with the record
\* it found; every other handler leaves OtherEvent.  passes counts the render
\* passes since the last handler that were followed by another one.
NoEvent == [name |-> "none", value |-> ""]
OtherEvent == [name |-> "other", value |-> ""]
TaxonomyFields == {"division", "subDivision", "group", "family"}
Event(field, value) ==
    IF field \in TaxonomyFields THEN [name |-> field, value |-> value] ELSE OtherEvent
NoProbe == [op |-> "none", input |-> AdminDefaults, output |-> [isValid |-> FALSE, errors |-> EmptyMap]]

-----------------------------------------------------------------------------
(* The suggestion service *)

getNcoDescriptionSuggestion(data) ==
    [success |-> TRUE,
     description |-> "Professional role in " \o data.family \o " within " \o data.group
                     \o ". Responsibilities include specialized tasks related to "
                     \o data.division \o " operations and " \o data.subDivision
                     \o " management."]

\* What the awaited call hands to the handler: the service's result, a
\* success:false result, or a rejection.
SuggestionOutcomes == {"result", "failure", "throw"}

\* A request outlives the NcoFormReview that issued it: owner is "review"
\* while that component is mounted and "app" once it is unmounted, when only
\* NcoAdminApp's setFormData is left for the callback to act on.  A request
\* whose NcoAdminApp is unmounted updates no mounted component and leaves the
\* model with it.
Orphan(queue) == [i \in 1..Len(queue) |-> [queue[i] EXCEPT !.owner = "app"]]

-----------------------------------------------------------------------------
(* Reset effects *)

\* Faulty variant: the effect on the group is missing.
DetailsEffectsKeepsFamily(data, deps, mount) ==
    LET a == IF mount \/ data.division # deps.division
             THEN [data EXCEPT !.subDivision = ""] ELSE data
    IN  IF mount \/ data.subDivision # deps.subDivision
        THEN [a EXCEPT !.group = ""] ELSE a

\* NcoFormDetails: three effects, each clearing the next level.
DetailsEffects(data, deps, mount) ==
    LET a == IF mount \/ data.division # deps.division
             THEN [data EXCEPT !.subDivision = ""] ELSE data
        b == IF mount \/ data.subDivision # deps.subDivision
             THEN [a EXCEPT !.group = ""] ELSE a
    IN  IF mount \/ data.group # deps.group THEN [b EXCEPT !.family = ""] ELSE b

\* NcoSingleForm: three effects, each clearing every level below.
SingleEffects(data, deps, mount) ==
    LET a == IF mount \/ data.division # deps.division
             THEN [data EXCEPT !.subDivision = "", !.group = "", !.family = ""] ELSE data
        b == IF mount \/ data.subDivision # deps.subDivision
             THEN [a EXCEPT !.group = "", !.family = ""] ELSE a
    IN  IF mount \/ data.group # deps.group THEN [b EXCEPT !.family = ""] ELSE b

\* An effect runs after the mount and after a commit that changed its dependency.
EffectsRun(data, deps, mount) == mount \/ Deps(data) # deps

-----------------------------------------------------------------------------
(* Select controls *)

\* FormSelect (wizard): values the user can pick.
FormSelect(options, disabled) ==
    IF disabled \/ Cardinality(Options(options)) = 0 THEN {} ELSE {""} \cup Options(options)

\* Select (single-page form): values the user can pick.
Select(options, disabled) ==
    IF disabled THEN {} ELSE {""} \cup Options(options)

-----------------------------------------------------------------------------
(* Initial state: App has chosen the 'admin' page; nothing is rendered yet *)

InitApp ==
    /\ currentPage = "admin"
    /\ phase = "render"
    /\ mounted = "none"
    /\ currentStep = 1
    /\ formData = AdminDefaults
    /\ errors = EmptyMap
    /\ reviewErrors = EmptyMap
    /\ isPending = FALSE
    /\ inflight = <<>>
    /\ lastDeps = NoDeps
    /\ singleFormData = SingleDefaults
    /\ singleErrors = EmptyMap
    /\ lastEvent = NoEvent
    /\ passes = 0

Init == InitApp /\ probe = NoProbe

-----------------------------------------------------------------------------
(* App: page switch *)

setCurrentPage(page) ==
    /\ phase = "idle"
    /\ page # currentPage
    /\ currentPage' = page
    /\ phase' = "render"
    /\ lastEvent' = OtherEvent
    /\ UNCHANGED <<mounted, adminVars, inflight, lastDeps, singleVars, probe, passes>>

-----------------------------------------------------------------------------
(* NcoAdminApp *)

handleNext == currentStep' = 2

handleBack == currentStep' = 1

\* Faulty variant: the reset keeps the confidence the user set.
handleSubmitKeepsConfidence ==
    /\ formData' = [AdminDefaults EXCEPT !.confidence = formData.confidence]
    /\ currentStep' = 1

handleSubmit == formData' = AdminDefaults /\ currentStep' = 1

-----------------------------------------------------------------------------
(* NcoFormDetails *)

DetailsOffered(field) ==
    CASE field = "ncoCode" -> CodeInputs
      [] field = "division" -> Picked(FormSelect(divisions, FALSE))
      [] field = "subDivision" ->
            Picked(FormSelect(subDivisions(formData), formData.division = ""))
      [] field = "group" -> Picked(FormSelect(groups(formData), formData.subDivision = ""))
      [] field = "family" -> Picked(FormSelect(families(formData), formData.group = ""))

DetailsUpdateField(field, value) ==
    /\ phase = "idle" /\ currentPage = "admin" /\ mounted = "details"
    /\ value \in DetailsOffered(field)
    /\ value # formData[field]
    /\ formData' = [formData EXCEPT ![field] = value]
    /\ phase' = "render"
    /\ lastEvent' = Event(field, value)
    /\ UNCHANGED <<currentPage, mounted, currentStep, errors, reviewErrors, isPending,
                   inflight, lastDeps, singleVars, probe, passes>>

\* Faulty variant: onNext is called whatever the validation says.
DetailsHandleSubmitAlwaysNext ==
    /\ phase = "idle" /\ currentPage = "admin" /\ mounted = "details"
    /\ errors' = validateNcoDetails(formData).errors
    /\ handleNext
    /\ phase' = "render"
    /\ lastEvent' = OtherEvent
    /\ UNCHANGED <<currentPage, mounted, formData, reviewErrors, isPending,
                   inflight, lastDeps, singleVars, probe, passes>>

DetailsHandleSubmit ==
    /\ phase = "idle" /\ currentPage = "admin" /\ mounted = "details"
    /\ LET validation == validateNcoDetails(formData)
       IN  IF validation.isValid
           THEN errors' = EmptyMap /\ handleNext
           ELSE errors' = validation.errors /\ UNCHANGED currentStep
    /\ phase' = "render"
    /\ lastEvent' = OtherEvent
    /\ UNCHANGED <<currentPage, mounted, formData, reviewErrors, isPending,
                   inflight, lastDeps, singleVars, probe, passes>>

-----------------------------------------------------------------------------
(* NcoFormReview *)

ReviewOffered(field) ==
    CASE field = "description" -> DescriptionInputs
      [] field = "confidence" -> ConfidenceInputs

ReviewUpdateField(field, value) ==
    /\ phase = "idle" /\ currentPage = "admin" /\ mounted = "review"
    /\ value \in ReviewOffered(field)
    /\ value # formData[field]
    /\ formData' = [formData EXCEPT ![field] = value]
    /\ phase' = "render"
    /\ lastEvent' = Event(field, value)
    /\ UNCHANGED <<currentPage, mounted, currentStep, errors, reviewErrors, isPending,
                   inflight, lastDeps, singleVars, probe, passes>>

\* The button is disabled while isPending.
handleSuggestDescription ==
    /\ phase = "idle" /\ currentPage = "admin" /\ mounted = "review"
    /\ ~isPending
    /\ Len(inflight) < MaxInFlight
    /\ inflight' = Append(inflight,
                          [division |-> formData.division, subDivision |-> formData.subDivision,
                           group |-> formData.group, family |-> formData.family,
                           owner |-> "review"])
    /\ isPending' = TRUE
    /\ phase' = "render"
    /\ lastEvent' = OtherEvent
    /\ UNCHANGED <<currentPage, mounted, currentStep, formData, errors, reviewErrors,
                   lastDeps, singleVars, probe, passes>>

\* Faulty variant: the returned text is dropped when the user has typed a
\* description in the meantime.
SuggestionSettledKeepsEdit(outcome) ==
    /\ phase = "idle"
    /\ inflight # <<>>
    /\ LET request == Head(inflight)
           result == IF outcome = "result" THEN getNcoDescriptionSuggestion(request)
                     ELSE [success |-> FALSE, description |-> ""]
           populated == /\ outcome # "throw" /\ result.success /\ result.description # ""
                        /\ formData.description = ""
       IN  /\ inflight' = Tail(inflight)
           /\ formData' = IF populated
                          THEN [formData EXCEPT !.description = result.description]
                          ELSE formData
           /\ isPending' = IF request.owner = "review" THEN FALSE ELSE isPending
           /\ phase' = IF request.owner = "review" \/ populated THEN "render" ELSE phase
           /\ lastEvent' = [name |-> "settled", value |-> formData.description]
    /\ UNCHANGED <<currentPage, mounted, currentStep, errors, reviewErrors,
                   lastDeps, singleVars, probe, passes>>

\* The rest of the async callback, once the oldest request settles.
SuggestionSettled(outcome) ==
    /\ phase = "idle"
    /\ inflight # <<>>
    /\ LET request == Head(inflight)
           result == IF outcome = "result" THEN getNcoDescriptionSuggestion(request)
                     ELSE [success |-> FALSE, description |-> ""]
           populated == outcome # "throw" /\ result.success /\ result.description # ""
       IN  /\ inflight' = Tail(inflight)
           /\ formData' = IF populated
                          THEN [formData EXCEPT !.description = result.description]
                          ELSE formData
           /\ isPending' = IF request.owner = "review" THEN FALSE ELSE isPending
           /\ phase' = IF request.owner = "review" \/ populated THEN "render" ELSE phase
           /\ lastEvent' = [name |-> "settled", value |-> formData.description]
    /\ UNCHANGED <<currentPage, mounted, currentStep, errors, reviewErrors,
                   lastDeps, singleVars, probe, passes>>

handleSubmitReview ==
    /\ phase = "idle" /\ currentPage = "admin" /\ mounted = "review"
    /\ LET validation == validateNcoReview(formData)
       IN  IF validation.isValid
           THEN reviewErrors' = EmptyMap /\ handleSubmit
           ELSE reviewErrors' = validation.errors /\ UNCHANGED <<formData, currentStep>>
    /\ phase' = "render"
    /\ lastEvent' = OtherEvent
    /\ UNCHANGED <<currentPage, mounted, errors, isPending, inflight, lastDeps,
                   singleVars, probe, passes>>

ReviewBack ==
    /\ phase = "idle" /\ currentPage = "admin" /\ mounted = "review"
    /\ handleBack
    /\ phase' = "render"
    /\ lastEvent' = [name |-> "back", value |-> formData]
    /\ UNCHANGED <<currentPage, mounted, formData, errors, reviewErrors, isPending,
                   inflight, lastDeps, singleVars, probe, passes>>

-----------------------------------------------------------------------------
(* NcoSingleForm *)

SingleOffered(field) ==
    CASE field = "ncoCode" -> CodeInputs
      [] field = "title" -> TitleInputs
      [] field = "description" -> DescriptionInputs
      [] field = "division" -> Picked(Select(divisions, FALSE))
      [] field = "subDivision" ->
            Picked(Select(subDivisions(singleFormData), singleFormData.division = ""))
      [] field = "group" ->
            Picked(Select(groups(singleFormData), singleFormData.subDivision = ""))
      [] field = "family" -> Picked(Select(families(singleFormData), singleFormData.group = ""))
      [] field = "confidenceScore" -> ConfidenceInputs

SingleFields ==
    {"ncoCode", "title", "description", "division", "subDivision", "group", "family",
     "confidenceScore"}

\* Faulty variant: an edit clears the whole error map.
SingleUpdateFieldClearsAll(field, value) ==
    /\ phase = "idle" /\ currentPage = "output" /\ mounted = "single"
    /\ value \in SingleOffered(field)
    /\ value # singleFormData[field]
    /\ singleFormData' = [singleFormData EXCEPT ![field] = value]
    /\ singleErrors' = EmptyMap
    /\ phase' = "render"
    /\ lastEvent' = Event(field, value)
    /\ UNCHANGED <<currentPage, mounted, adminVars, inflight, lastDeps, probe, passes>>

SingleUpdateField(field, value) ==
    /\ phase = "idle" /\ currentPage = "output" /\ mounted = "single"
    /\ value \in SingleOffered(field)
    /\ value # singleFormData[field]
    /\ singleFormData' = [singleFormData EXCEPT ![field] = value]
    /\ singleErrors' = IF field \in DOMAIN singleErrors
                       THEN Delete(singleErrors, field) ELSE singleErrors
    /\ phase' = "render"
    /\ lastEvent' = Event(field, value)
    /\ UNCHANGED <<currentPage, mounted, adminVars, inflight, lastDeps, probe, passes>>

\* Faulty variant: a successful submit resets the record, as the wizard's does.
SingleHandleSubmitResets ==
    /\ phase = "idle" /\ currentPage = "output" /\ mounted = "single"
    /\ LET validation == validateForm(singleFormData)
       IN  IF validation.isValid
           THEN singleErrors' = EmptyMap /\ singleFormData' = SingleDefaults
           ELSE singleErrors' = validation.errors /\ singleFormData' = singleFormData
    /\ phase' = "render"
    /\ lastEvent' = [name |-> "submit", value |-> singleFormData]
    /\ UNCHANGED <<currentPage, mounted, adminVars, inflight, lastDeps, probe, passes>>

SingleHandleSubmit ==
    /\ phase = "idle" /\ currentPage = "output" /\ mounted = "single"
    /\ LET validation == validateForm(singleFormData)
       IN  IF validation.isValid
           THEN singleErrors' = EmptyMap
           ELSE singleErrors' = validation.errors
    /\ phase' = "render"
    /\ lastEvent' = [name |-> "submit", value |-> singleFormData]
    /\ UNCHANGED <<currentPage, mounted, adminVars, inflight, lastDeps, singleFormData, probe, passes>>

-----------------------------------------------------------------------------
(* One render pass of the page, its commit and its effects *)

RenderDetails ==
    /\ phase = "render" /\ currentPage = "admin" /\ currentStep = 1
    /\ passes < MaxPasses
    /\ IF RenderThrows(formData)
       THEN /\ phase' = "crashed"
            /\ UNCHANGED <<mounted, formData, errors, reviewErrors, isPending, inflight,
                           lastDeps, singleVars>>
       ELSE LET mount == mounted # "details"
            IN  /\ formData' = DetailsEffects(formData, lastDeps, mount)
                /\ lastDeps' = Deps(formData)
                /\ phase' = IF EffectsRun(formData, lastDeps, mount) THEN "render" ELSE "idle"
                /\ mounted' = "details"
                /\ errors' = IF mount THEN EmptyMap ELSE errors
                /\ reviewErrors' = EmptyMap
                /\ isPending' = FALSE
                /\ inflight' = IF mounted = "review" THEN Orphan(inflight) ELSE inflight
                /\ singleFormData' = SingleDefaults
                /\ singleErrors' = EmptyMap
    /\ passes' = IF phase' = "render" THEN passes + 1 ELSE 0
    /\ UNCHANGED <<currentPage, currentStep, lastEvent, probe>>

RenderReview ==
    /\ phase = "render" /\ currentPage = "admin" /\ currentStep = 2
    /\ phase' = "idle"
    /\ mounted' = "review"
    /\ errors' = EmptyMap
    /\ lastDeps' = NoDeps
    /\ reviewErrors' = IF mounted # "review" THEN EmptyMap ELSE reviewErrors
    /\ isPending' = IF mounted # "review" THEN FALSE ELSE isPending
    /\ passes' = 0
    /\ UNCHANGED <<currentPage, currentStep, formData, inflight, singleVars, lastEvent, probe>>

RenderSingle ==
    /\ phase = "render" /\ currentPage = "output"
    /\ passes < MaxPasses
    /\ IF RenderThrows(singleFormData)
       THEN /\ phase' = "crashed"
            /\ UNCHANGED <<mounted, adminVars, inflight, lastDeps, singleVars>>
       ELSE LET mount == mounted # "single"
            IN  /\ singleFormData' = SingleEffects(singleFormData, lastDeps, mount)
                /\ lastDeps' = Deps(singleFormData)
                /\ phase' = IF EffectsRun(singleFormData, lastDeps, mount) THEN "render" ELSE "idle"
                /\ mounted' = "single"
                /\ singleErrors' = IF mount THEN EmptyMap ELSE singleErrors
                /\ currentStep' = 1
                /\ formData' = AdminDefaults
                /\ errors' = EmptyMap
                /\ reviewErrors' = EmptyMap
                /\ isPending' = FALSE
                /\ inflight' = <<>>
    /\ passes' = IF phase' = "render" THEN passes + 1 ELSE 0
    /\ UNCHANGED <<currentPage, lastEvent, probe>>

-----------------------------------------------------------------------------
(* Validation calls on their own *)

RECURSIVE Text(_)
Text(n) == IF n = 0 THEN "" ELSE Text(n - 1) \o "x"

\* The fields the three validation functions read, and a confidence.
ProbeRecords ==
    [ncoCode : CodeInputs,
     title : TitleInputs,
     division : {"", "Division A"},
     subDivision : {"", "Sub-Division A1"},
     group : {"", "Group A1-1"},
     family : {"", "Family A1-1-1"},
     description : {Text(n) : n \in 0..MaxDescLen},
     confidence : {<<0>>, <<75>>}]

InitProbe ==
    /\ InitApp
    /\ \E r \in ProbeRecords :
          probe = [op |-> "none", input |-> r, output |-> NoProbe.output]

ProbeDetails ==
    /\ probe.op = "none"
    /\ probe' = [probe EXCEPT !.op = "details", !.output = validateNcoDetails(probe.input)]
    /\ UNCHANGED <<currentPage, phase, mounted, adminVars, inflight, lastDeps, singleVars,
                   lastEvent, passes>>

ProbeReview ==
    /\ probe.op = "none"
    /\ probe' = [probe EXCEPT !.op = "review", !.output = validateNcoReview(probe.input)]
    /\ UNCHANGED <<currentPage, phase, mounted, adminVars, inflight, lastDeps, singleVars,
                   lastEvent, passes>>

ProbeForm ==
    /\ probe.op = "none"
    /\ probe' = [probe EXCEPT !.op = "form", !.output = validateForm(probe.input)]
    /\ UNCHANGED <<currentPage, phase, mounted, adminVars, inflight, lastDeps, singleVars,
                   lastEvent, passes>>

-----------------------------------------------------------------------------
(* Specifications *)

Next ==
    \/ \E page \in {"admin", "output"} : setCurrentPage(page)
    \/ \E field \in {"ncoCode", "division", "subDivision", "group", "family"} :
          \E value \in DetailsOffered(field) : DetailsUpdateField(field, value)
    \/ DetailsHandleSubmit
    \/ \E field \in {"description", "confidence"} :
          \E value \in ReviewOffered(field) : ReviewUpdateField(field, value)
    \/ handleSuggestDescription
    \/ \E outcome \in SuggestionOutcomes : SuggestionSettled(outcome)
    \/ handleSubmitReview
    \/ ReviewBack
    \/ \E field \in SingleFields :
          \E value \in SingleOffered(field) : SingleUpdateField(field, value)
    \/ SingleHandleSubmit
    \/ RenderDetails
    \/ RenderReview
    \/ RenderSingle

Spec == Init /\ [][Next]_vars

NextProbe == ProbeDetails \/ ProbeReview \/ ProbeForm

SpecProbe == InitProbe /\ [][NextProbe]_vars

-----------------------------------------------------------------------------
(* The taxonomy as a set of complete paths, for stating the properties *)

Tree ==
    {<<"Division A", "Sub-Division A1", "Group A1-1", "Family A1-1-1">>,
     <<"Division A", "Sub-Division A1", "Group A1-1", "Family A1-1-2">>,
     <<"Division A", "Sub-Division A1", "Group A1-2", "Family A1-2-1">>,
     <<"Division A", "Sub-Division A1", "Group A1-2", "Family A1-2-2">>,
     <<"Division A", "Sub-Division A2", "Group A2-1", "Family A2-1-1">>,
     <<"Division A", "Sub-Division A2", "Group A2-2", "Family A2-2-1">>,
     <<"Division A", "Sub-Division A2", "Group A2-2", "Family A2-2-2">>,
     <<"Division B", "Sub-Division B1", "Group B1-1", "Family B1-1-1">>,
     <<"Division B", "Sub-Division B1", "Group B1-1", "Family B1-1-2">>,
     <<"Division B", "Sub-Division B1", "Group B1-2", "Family B1-2-1">>}

SubDivisionsOf(d) == {p[2] : p \in {q \in Tree : q[1] = d}}
GroupsOf(d, s) == {p[3] : p \in {q \in Tree : q[1] = d /\ q[2] = s}}
FamiliesOf(d, s, g) == {p[4] : p \in {q \in Tree : q[1] = d /\ q[2] = s /\ q[3] = g}}

ReferentialIntegrity(data) ==
    /\ data.subDivision = "" \/ data.subDivision \in SubDivisionsOf(data.division)
    /\ data.group = "" \/ data.group \in GroupsOf(data.division, data.subDivision)
    /\ data.family = ""
       \/ data.family \in FamiliesOf(data.division, data.subDivision, data.group)

\* The record of the page App shows.
Record == IF currentPage = "admin" THEN formData ELSE singleFormData

FiveFilled(data) ==
    /\ data.ncoCode # "" /\ data.division # "" /\ data.subDivision # ""
    /\ data.group # "" /\ data.family # ""

-----------------------------------------------------------------------------
(* C1: in every reachable state of both forms, the states between a
   selection change and the end of its reset effects included, subDivision
   is empty or a key under division, group is empty or a key under
   division.subDivision, and family is empty or in the list at
   division.subDivision.group. *)
C1_ReferentialIntegrity ==
    ReferentialIntegrity(formData) /\ ReferentialIntegrity(singleFormData)

(* C2: once the user has changed division and the renders and effects that
   follow have run, the form is there with division equal to the value
   picked and subDivision = group = family = "". *)
C2_DivisionChangeResets ==
    (lastEvent.name = "division" /\ phase # "render") =>
        /\ phase = "idle"
        /\ Record.division = lastEvent.value
        /\ Record.subDivision = "" /\ Record.group = "" /\ Record.family = ""

(* C3: the wizard's step goes from Details to Review only in the advance
   handler and only with ncoCode, division, subDivision, group and family all
   non-empty; when one of them is empty the advance handler leaves the step
   and the record as they are and displays the validation's error map. *)
C3_AdvanceOnlyWhenValid ==
    [][/\ (currentStep = 1 /\ currentStep' = 2) =>
              (DetailsHandleSubmit /\ FiveFilled(formData))
       /\ (DetailsHandleSubmit /\ ~FiveFilled(formData)) =>
              /\ currentStep' = 1
              /\ formData' = formData
              /\ errors' = validateNcoDetails(formData).errors
              /\ errors' # EmptyMap]_vars

C3_Advanced ==
    /\ currentStep = 2 /\ mounted = "details" /\ phase = "render"
    /\ FiveFilled(formData)

(* C4: the submit handler of Review succeeds only with a description of 10
   or more characters; on success the record is the defaults (every string
   empty, confidence 75) and the step is Details, and the render that follows
   leaves the record so; on failure the step stays Review, the record is
   unchanged and description has an error. *)
C4_SubmitReview ==
    [][/\ handleSubmitReview =>
              IF Len(formData.description) >= 10
              THEN /\ formData' = [ncoCode |-> "", division |-> "", subDivision |-> "",
                                   group |-> "", family |-> "", description |-> "",
                                   confidence |-> <<75>>]
                   /\ currentStep' = 1
              ELSE /\ currentStep' = 2
                   /\ formData' = formData
                   /\ "description" \in DOMAIN reviewErrors'
       /\ (RenderDetails /\ mounted = "review" /\ formData.division = "") =>
              (formData' = formData /\ currentStep' = 1 /\ mounted' = "details")]_vars

C4_Submitted ==
    /\ mounted = "review" /\ phase = "render" /\ currentStep = 1
    /\ formData = AdminDefaults

(* C5: at most one suggestion request is in flight, and while one is in
   flight the Suggest button of the mounted Review step is disabled. *)
C5_OneRequestInFlight ==
    /\ Len(inflight) <= 1
    /\ (inflight # <<>> /\ mounted = "review" /\ phase = "idle") => isPending

(* C6: a suggestion request that settles with the service's result sets
   description to the returned text, whatever description held, and changes
   no other field; one that settles with success:false or a rejection leaves
   the whole record unchanged. *)
C6_SettledFrame ==
    [][\A outcome \in SuggestionOutcomes :
          SuggestionSettled(outcome) =>
              IF outcome = "result"
              THEN /\ formData'.description =
                          getNcoDescriptionSuggestion(Head(inflight)).description
                   /\ \A f \in DOMAIN formData \ {"description"} : formData'[f] = formData[f]
              ELSE formData' = formData]_vars

C6_OverwroteUserEdit ==
    /\ lastEvent.name = "settled" /\ lastEvent.value = "short"
    /\ Len(formData.description) > 10
    /\ FiveFilled(formData)

(* C7: for every record the page can hold, the three option lists are
   computed without an error and hold exactly the keys found by descending
   the table, none when an ancestor is empty or absent at its level. *)
C7_OptionListsTotal ==
    /\ subDivisions(Record).kind = "array"
    /\ groups(Record).kind = "array"
    /\ families(Record).kind = "array"
    /\ Options(subDivisions(Record)) = SubDivisionsOf(Record.division)
    /\ Options(groups(Record)) = GroupsOf(Record.division, Record.subDivision)
    /\ Options(families(Record)) =
           FamiliesOf(Record.division, Record.subDivision, Record.group)

(* C8: no sequence of user actions ends the form: no render throws. *)
C8_NoFatalState == phase # "crashed"

(* C9: Details-profile validation reports exactly those of ncoCode, division,
   subDivision, group, family that are empty, each with its fixed message,
   and isValid iff it reports none. *)
DetailsMessage(f) ==
    CASE f = "ncoCode" -> "NCO Code is required"
      [] f = "division" -> "Division is required"
      [] f = "subDivision" -> "Sub-Division is required"
      [] f = "group" -> "Group is required"
      [] f = "family" -> "Family is required"

C9_DetailsProfile ==
    probe.op = "details" =>
        /\ DOMAIN probe.output.errors =
               {f \in {"ncoCode", "division", "subDivision", "group", "family"} :
                    probe.input[f] = ""}
        /\ \A f \in DOMAIN probe.output.errors : probe.output.errors[f] = DetailsMessage(f)
        /\ probe.output.isValid <=> (DOMAIN probe.output.errors = {})

C9_OnlyCodeMissing ==
    /\ probe.op = "details"
    /\ probe.input.ncoCode = "" /\ probe.input.division = "Division A"
    /\ probe.input.subDivision = "Sub-Division A1" /\ probe.input.group = "Group A1-1"
    /\ probe.input.family = "Family A1-1-1"
    /\ probe.input.description = ""
    /\ DOMAIN probe.output.errors = {"ncoCode"}

(* C10: Review-profile validation flags description iff it has fewer than 10
   characters, and flags no other field. *)
C10_ReviewProfile ==
    probe.op = "review" =>
        /\ ("description" \in DOMAIN probe.output.errors) <=> (Len(probe.input.description) < 10)
        /\ DOMAIN probe.output.errors \subseteq {"description"}
        /\ probe.output.isValid <=> (Len(probe.input.description) >= 10)

C10_ExactlyTen ==
    /\ probe.op = "review"
    /\ Len(probe.input.description) = 10
    /\ probe.input.ncoCode = ""
    /\ probe.output.isValid

(* C11: single-page validation flags exactly the violated rules among
   ncoCode, title, division, subDivision, group, family non-empty and
   description of 10 or more characters; its error map is the Details
   profile's map, the Review profile's map and the title rule together, and
   isValid iff the map is empty. *)
C11_SingleProfile ==
    probe.op = "form" =>
        LET input == probe.input
            out == probe.output
            details == validateNcoDetails(input).errors
            review == validateNcoReview(input).errors
            titleRule == IF input.title = "" THEN {"title"} ELSE {}
        IN  /\ DOMAIN out.errors =
                   {f \in {"ncoCode", "title", "division", "subDivision", "group", "family"} :
                        input[f] = ""}
                   \cup (IF Len(input.description) >= 10 THEN {} ELSE {"description"})
            /\ DOMAIN out.errors = DOMAIN details \cup DOMAIN review \cup titleRule
            /\ \A f \in DOMAIN details : out.errors[f] = details[f]
            /\ \A f \in DOMAIN review : out.errors[f] = review[f]
            /\ \A f \in titleRule : out.errors[f] = "Title is required"
            /\ out.isValid <=> (DOMAIN out.errors = {})

C11_TitleAndShortDescription ==
    /\ probe.op = "form"
    /\ probe.input.title = "" /\ probe.input.ncoCode = "1111"
    /\ Len(probe.input.description) = 9
    /\ probe.input.division = "Division A" /\ probe.input.subDivision = "Sub-Division A1"
    /\ probe.input.group = "Group A1-1" /\ probe.input.family = "Family A1-1-1"
    /\ DOMAIN probe.output.errors = {"title", "description"}
    /\ ~probe.output.isValid

(* C12: a submit of the single-page form leaves every field of the record
   as it was, both right after the handler and after the page has rendered
   again; the error map is empty when the record was valid and exactly the
   validation's error map when it was not. *)
C12_SingleSubmitFrame ==
    lastEvent.name = "submit" =>
        /\ singleFormData = lastEvent.value
        /\ phase \in {"render", "idle"}
        /\ IF validateForm(lastEvent.value).isValid
           THEN singleErrors = EmptyMap
           ELSE singleErrors = validateForm(lastEvent.value).errors /\ singleErrors # EmptyMap

C12_ValidSubmitKept ==
    /\ lastEvent.name = "submit" /\ phase = "idle"
    /\ singleErrors = EmptyMap
    /\ singleFormData # SingleDefaults
    /\ singleFormData.family # "" /\ singleFormData.title # ""

\* The selectors of a form over record data, offered being what each lets
\* the user pick: every descendant selector with an empty ancestor is
\* disabled and has no options.
SelectorsGated(data, offered(_)) ==
    /\ data.division = "" => Options(subDivisions(data)) = {} /\ offered("subDivision") = {}
    /\ data.subDivision = "" => Options(groups(data)) = {} /\ offered("group") = {}
    /\ data.group = "" => Options(families(data)) = {} /\ offered("family") = {}

NoOrphanLevel(data) ==
    /\ ~(data.subDivision # "" /\ data.division = "")
    /\ ~(data.group # "" /\ data.subDivision = "")
    /\ ~(data.family # "" /\ data.group = "")

C13_SelectorsGated ==
    /\ SelectorsGated(formData, DetailsOffered)
    /\ SelectorsGated(singleFormData, SingleOffered)

(* C13: in every reachable state of both forms each descendant selector is
   disabled and has an empty option list whenever its immediate ancestor
   field is empty, and no record has a non-empty subDivision under an empty
   division, a non-empty group under an empty subDivision, or a non-empty
   family under an empty group. *)
C13_DescendantsGated ==
    /\ SelectorsGated(formData, DetailsOffered)
    /\ SelectorsGated(singleFormData, SingleOffered)
    /\ NoOrphanLevel(formData)
    /\ NoOrphanLevel(singleFormData)

C13_SettledNoOrphanLevel ==
    phase = "idle" => NoOrphanLevel(formData) /\ NoOrphanLevel(singleFormData)

(* C14: after Back from Review, once the Details step is shown again and
   its effects have run, every field of the record has the value it had in
   Review. *)
C14_BackKeepsRecord ==
    lastEvent.name = "back" /\ phase = "idle" => formData = lastEvent.value

(* C15: when a suggestion request settles after the Review step that made
   it is gone (the wizard has submitted or gone Back since), the record is
   left as it was. *)
C15_StaleCompletionIgnored ==
    [][\A outcome \in SuggestionOutcomes :
          SuggestionSettled(outcome) /\ Head(inflight).owner = "app" =>
              formData' = formData]_vars

Ancestors(f) ==
    CASE f = "subDivision" -> {"division"}
      [] f = "group" -> {"division", "subDivision"}
      [] f = "family" -> {"division", "subDivision", "group"}

Descendants(f) ==
    CASE f = "subDivision" -> {"group", "family"}
      [] f = "group" -> {"family"}
      [] f = "family" -> {}

(* C16: in both forms, from a change of subDivision, group or family until
   the page is idle again: the changed field has the picked value, every
   ancestor field and every non-taxonomy field keeps its value on every
   step, the render never fails, at most three render passes are needed,
   and once idle every descendant of the changed field is empty. *)
C16_LowerLevelChange ==
    [][lastEvent'.name \in {"subDivision", "group", "family"} =>
          LET f == lastEvent'.name
              before == Record
              after == Record'
          IN  /\ phase' \in {"render", "idle"}
              /\ after[f] = lastEvent'.value
              /\ \A g \in Ancestors(f) \cup (DOMAIN before \ TaxonomyFields) :
                    after[g] = before[g]
              /\ passes' <= 2
              /\ phase' = "idle" => \A g \in Descendants(f) : after[g] = ""]_vars

C16_GroupClearedFamilyPending ==
    /\ currentPage = "admin" /\ phase = "render" /\ passes = 1
    /\ lastEvent.name = "subDivision" /\ lastEvent.value # ""
    /\ formData.subDivision = lastEvent.value
    /\ formData.group = "" /\ formData.family # ""

Path(data) == <<data.division, data.subDivision, data.group, data.family>>

(* C17: whenever the wizard's step is Review, ncoCode, division,
   subDivision, group and family are non-empty and the path is one of the
   table; no step that stays in Review changes any of the five; and a record
   the terminal submit accepts passes the Details profile and the Review
   profile with a path of the table. *)
C17_ReviewHoldsValidDetails ==
    [][/\ currentStep' = 2 => FiveFilled(formData') /\ Path(formData') \in Tree
       /\ (currentStep = 2 /\ currentStep' = 2) =>
              \A f \in {"ncoCode", "division", "subDivision", "group", "family"} :
                  formData'[f] = formData[f]
       /\ (handleSubmitReview /\ currentStep' = 1) =>
              /\ validateNcoDetails(formData).isValid
              /\ validateNcoReview(formData).isValid
              /\ Path(formData) \in Tree]_vars

C17_SettledInReview ==
    /\ currentStep = 2 /\ mounted = "review" /\ phase = "idle"
    /\ lastEvent.name = "settled"
    /\ Len(formData.description) > 10
    /\ reviewErrors # EmptyMap

(* C18: while the single-page form is mounted its error map changes only
   in a submit and in a user edit: an edit of field f leaves the map without
   an entry for f and with every other entry as it was, whatever the new
   value; a submit leaves exactly the map the validation computes from the
   record, whatever the map was; every other step leaves the map alone. *)
C18_SingleErrorMap ==
    [][(mounted = "single" /\ mounted' = "single") =>
          LET edited == {f \in SingleFields : singleFormData'[f] # singleFormData[f]}
          IN  IF phase = "idle" /\ lastEvent'.name = "submit"
              THEN singleErrors' = validateForm(singleFormData).errors
              ELSE IF phase = "idle" /\ edited # {}
              THEN /\ Cardinality(edited) = 1
                   /\ DOMAIN singleErrors' = DOMAIN singleErrors \ edited
                   /\ \A g \in DOMAIN singleErrors' : singleErrors'[g] = singleErrors[g]
              ELSE singleErrors' = singleErrors]_vars

C18_EntryRemovedByInvalidEdit ==
    /\ mounted = "single" /\ currentPage = "output" /\ phase = "idle"
    /\ singleFormData.description = "short"
    /\ "description" \notin DOMAIN singleErrors
    /\ {"ncoCode", "title", "division"} \subseteq DOMAIN singleErrors

====
